---- MODULE Spec2Model ----
(***************************************************************************)
(* open_agb_firm (source/arm11/open_agb_firm.c): the GBA ROM loader and    *)
(* its padding, save type detection, the game database search and the      *)
(* frame dispatch task, as one state machine.                              *)
(*                                                                         *)
(* Sizes are scaled: the code's 0x100000 (1 MiB) is ROM_CHUNK =            *)
(* 2^LogChunk bytes here and every size the code derives from it keeps its *)
(* ratio (window 32 chunks, EEPROM limit 16 chunks).  Bytes, 32 bit words, *)
(* 16 bit halfwords, header offsets and strings keep their real widths.    *)
(***************************************************************************)
EXTENDS Integers, Sequences, FiniteSets, TLC

VARIABLES
    romLoc,     \* ROM_LOC, the address of the ROM window
    romFile,    \* the file the browser selected: [size, fill, code, strs]
    romWindow,        \* the window: offset from ROM_LOC -> byte
    afterRom,   \* the bytes that follow the window (only memcmp can reach them)
    romSize,    \* oafInitAndRun's local romSize (*romSizeOut); -1 while unset
    loadRes,    \* what loadGbaRom returned; "none" while it has not been called
    res,        \* what oafInitAndRun returned; "none" while it has not run
    saveType,   \* what tryDetectSaveType returned; -1 while it has not been called
    busStores,  \* the word stores of fixRomPadding's open bus loop; -1 before it ran
    evState,    \* the frame ready KEvent: "none", "live" or "deleted"
    oneShot,    \* whether a successful wait clears the event by itself
    signaled,   \* the event's flag (stale once the event is deleted)
    hwOn,       \* LGYFB capture hardware running (signals the event)
    gfxPc,      \* gbaGfxHandler's position; "none" before createTask
    inited,     \* gbaGfxHandler's static bool inited
    gfxLog,     \* what the task did in its current cycle, in order
    cnt,        \* counters of what the task did and of the signals
    mainPc,     \* main task: "boot", "vblank" (in oafInitAndRun, line 682), "run",
                \* "update" (blocked in oafUpdate), "nullwait", "fault", "finished"
    gFrameReadyEvent, \* g_frameReadyEvent is not NULL
    db,         \* gba_db.bin: sequence of records, each the first 8 sha1 bytes
    dbHash,     \* the first 8 bytes of the hash searched for
    dbRes,      \* what searchGameDb returned; "none" before the call
    entryPos,   \* *entryPos (the caller sets it to -1)
    dbEntry,    \* the sha1 prefix in the caller's GameDbEntry buffer
    dbProbes    \* the record indices searchGameDb read, in order

romVars == <<romLoc, romFile, romWindow, afterRom, romSize, loadRes, res, saveType, busStores>>
gfxVars == <<evState, oneShot, signaled, hwOn, gfxPc, inited, gfxLog, cnt, mainPc,
             gFrameReadyEvent>>
dbVars  == <<db, dbHash, dbRes, entryPos, dbEntry, dbProbes>>
vars    == <<romVars, gfxVars, dbVars>>

----------------------------------------------------------------------------
(* Bounds of the model. *)

\* log2 of the model's ROM_CHUNK (the code's chunk is 2^20 bytes)
LogChunk == 8

\* signals the capture hardware raises in one run
MaxSignals == 3

\* records in a database file
MaxRecords == 4

\* frame cycles the handler starts beyond the signals of a run, through waits
\* on the event that has been deleted
MaxStaleCycles == 2

----------------------------------------------------------------------------
(* Integer helpers.  A 32 bit word is the pair <<low halfword, high        *)
(* halfword>>, a 64 bit word the four halfwords from the least significant *)
(* up, so that no value leaves the range of the integers of TLC.        *)

RECURSIVE Pow2(_)
Pow2(n) == IF n = 0 THEN 1 ELSE 2 * Pow2(n - 1)

Lo16(x) == x % 65536

\* __pkhbt(a, b, 16): bottom halfword of a, top halfword the bottom of b
Pkhbt16(a, b) == <<Lo16(a), Lo16(b)>>

\* the sum with the carry of the bottom halfword let into the top one
Uadd16_Carry(a, b) ==
    <<Lo16(a[1] + b[1]), Lo16(a[2] + b[2] + ((a[1] + b[1]) \div 65536))>>

\* __uadd16(a, b): the two halfwords are added separately, modulo 2^16
Uadd16(a, b) == <<Lo16(a[1] + b[1]), Lo16(a[2] + b[2])>>

\* util.h nextPow2: the smallest power of two that is not below val
RECURSIVE NextPow2From(_, _)
NextPow2From(p, val) == IF p >= val THEN p ELSE NextPow2From(2 * p, val)
nextPow2(val) == NextPow2From(1, val)

----------------------------------------------------------------------------
(* Program constants. *)

ROM_CHUNK == Pow2(LogChunk)

MAX_ROM_SIZE == 32 * ROM_CHUNK

EEPROM_2_LIMIT == 16 * ROM_CHUNK

\* candidates for ROM_LOC: the window's address, and one placed so that the
\* halfword counter of the open bus pattern wraps inside the scaled window
ROM_LOCS == {536870912, 536870912 + 131072 - (MAX_ROM_SIZE \div 2)}

SAVE_TYPE_EEPROM_8k == 0
SAVE_TYPE_EEPROM_8k_2 == 1
SAVE_TYPE_EEPROM_64k == 2
SAVE_TYPE_EEPROM_64k_2 == 3
SAVE_TYPE_FLASH_512k_PSC_RTC == 8
SAVE_TYPE_FLASH_1m_MRX_RTC == 10
SAVE_TYPE_SRAM_256k == 14
SAVE_TYPE_NONE == 15
NO_OVERRIDE == 255

GAME_CODE_OFFSET == 172
HEADER_SIZE == 228

Window == 0 .. (MAX_ROM_SIZE - 1)

----------------------------------------------------------------------------
(* The ROM file: its bytes are given by a description, so that the state   *)
(* holds the description and not a copy of the bytes.                      *)

\* byte i (from 0) of file f
FileByte(f, i) ==
    IF i >= GAME_CODE_OFFSET /\ i < GAME_CODE_OFFSET + 4
    THEN f.code[i - GAME_CODE_OFFSET + 1]
    ELSE IF \E k \in DOMAIN f.strs :
                i >= f.strs[k].off /\ i < f.strs[k].off + Len(f.strs[k].txt)
    THEN LET k == CHOOSE k \in DOMAIN f.strs :
                    i >= f.strs[k].off /\ i < f.strs[k].off + Len(f.strs[k].txt)
         IN  f.strs[k].txt[i - f.strs[k].off + 1]
    ELSE IF f.fill = "ramp" THEN (7 * i + 1) % 251
    ELSE IF f.fill = "ff" THEN 255
    ELSE 0

----------------------------------------------------------------------------
(* fixRomPadding *)

\* the words the open bus loop stores in n iterations, the first being
\* padding; every later one is __uadd16(previous, 0x00020002).  The n
\* iterations are folded in two halves to keep the evaluation shallow.
RECURSIVE OpenBusWords(_, _)
OpenBusWords(padding, n) ==
    IF n <= 0 THEN <<>>
    ELSE IF n = 1 THEN <<padding>>
    ELSE LET h     == n \div 2
             first == OpenBusWords(padding, h)
         IN  first \o OpenBusWords(Uadd16(first[h], <<2, 2>>), n - h)

\* byte b (0..3) of a 32 bit word stored little endian
WordByte(w, b) == (w[b \div 2 + 1] \div Pow2(8 * (b % 2))) % 256

\* lines 110..116: the words the loop stores from ROM_LOC + romSz up to the
\* end of the window
OpenBusPadding(base, romSz) ==
    LET padding == (base + romSz) \div 2
    IN  OpenBusWords(Pkhbt16(padding, padding + 1), (MAX_ROM_SIZE - romSz) \div 4)

\* line 114: the window with the words stored from offset romSz on
OpenBusFill(m, words, romSz) ==
    [a \in Window |->
        IF a >= romSz /\ (a - romSz) \div 4 < Len(words)
        THEN WordByte(words[(a - romSz) \div 4 + 1], (a - romSz) % 4)
        ELSE m[a]]

\* lines 118..127: every romSz sized block up to the end of the window is a
\* copy of the block at ROM_LOC
MirrorFill(m, romSz) ==
    [a \in Window |-> IF a >= romSz THEN m[a % romSz] ELSE m[a]]

\* the fill started one byte late
PadFF_OffByOne(m, romFileSize, romSz) ==
    [a \in Window |-> IF a > romFileSize /\ a < romSz THEN 255 ELSE m[a]]

\* line 105: memset(ROM_LOC + romFileSize, 0xFF, romSize - romFileSize)
PadFF(m, romFileSize, romSz) ==
    [a \in Window |-> IF a >= romFileSize /\ a < romSz THEN 255 ELSE m[a]]

\* lines 103..104
PaddedSize(romFileSize) ==
    IF nextPow2(romFileSize) < ROM_CHUNK THEN ROM_CHUNK ELSE nextPow2(romFileSize)

fixRomPadding(m, base, romFileSize) ==
    LET romSz  == PaddedSize(romFileSize)
        padded == PadFF(m, romFileSize, romSz)
        words  == OpenBusPadding(base, romSz)
    IN  [romWindow |-> IF romSz > ROM_CHUNK
                       THEN OpenBusFill(padded, words, romSz)
                       ELSE MirrorFill(padded, romSz),
         romSize |-> romSz,
         stores  |-> IF romSz > ROM_CHUNK THEN Len(words) ELSE 0]

----------------------------------------------------------------------------
(* loadGbaRom *)

\* lines 143..144: the read loop from ptr on.  fRead transfers what is left
\* of the file, at most one chunk; a read that fails (the fault-th one)
\* transfers nothing and ends the loop with its error.
RECURSIVE ReadLoop(_, _, _, _)
ReadLoop(f, fault, ptr, n) ==
    IF n = fault THEN [res |-> "RES_FR_DISK_ERR", copied |-> ptr]
    ELSE LET read == IF f.size - ptr < ROM_CHUNK THEN f.size - ptr ELSE ROM_CHUNK
         IN  IF read = ROM_CHUNK
             THEN ReadLoop(f, fault, ptr + ROM_CHUNK, n + 1)
             ELSE [res |-> "RES_OK", copied |-> ptr + read]

\* the window after the read loop copied the first `copied` bytes of f
AfterRead(m, f, copied) ==
    [a \in Window |-> IF a < copied THEN FileByte(f, a) ELSE m[a]]

\* line 139: fSize(f) <= MAX_ROM_SIZE
SizeAccepted(fileSize) == fileSize <= MAX_ROM_SIZE

\* the file refused only after the window was filled from it
Refused_AfterFill(m, f) ==
    [res |-> "RES_ROM_TOO_BIG", romWindow |-> AfterRead(m, f, MAX_ROM_SIZE),
     set |-> FALSE, romSize |-> -1, stores |-> -1]

\* line 148: the file is refused with nothing read and nothing written
Refused(m, f) ==
    [res |-> "RES_ROM_TOO_BIG", romWindow |-> m, set |-> FALSE, romSize |-> -1,
     stores |-> -1]

\* lines 132..154.  openOk: fOpen succeeds; fault: the read that fails
\* (counted from 0), -1 for none.  set: whether *romSizeOut was written.
loadGbaRom(m, base, f, openOk, fault) ==
    IF ~openOk
    THEN [res |-> "RES_FR_NO_FILE", romWindow |-> m, set |-> FALSE, romSize |-> -1,
          stores |-> -1]
    ELSE IF SizeAccepted(f.size)
    THEN LET rd  == ReadLoop(f, fault, 0, 0)
             fix == fixRomPadding(AfterRead(m, f, rd.copied), base, f.size)
         IN  [res |-> rd.res, romWindow |-> fix.romWindow, set |-> TRUE,
              romSize |-> fix.romSize, stores |-> fix.stores]
    ELSE Refused(m, f)

----------------------------------------------------------------------------
(* checkSaveOverride and tryDetectSaveType *)

\* the byte at window offset a; memcmp may run past the end of the window
RomByte(m, after, a) ==
    IF a < MAX_ROM_SIZE THEN m[a] ELSE after[a - MAX_ROM_SIZE + 1]

\* the little endian 32 bit word at window offset a
RomWord(m, a) == <<m[a] + 256 * m[a + 1], m[a + 2] + 256 * m[a + 3]>>

\* the u32 a 4 character array holds
CodeWord(c) == <<c[1] + 256 * c[2], c[3] + 256 * c[4]>>

\* lines 204..215
overrideLut ==
    << [gameCode |-> <<0, 0, 0, 0>>,    saveType |-> SAVE_TYPE_SRAM_256k],   \* homebrew
       [gameCode |-> <<71, 77, 66, 0>>, saveType |-> SAVE_TYPE_SRAM_256k],   \* "GMB"
       [gameCode |-> <<65, 65, 50, 0>>, saveType |-> SAVE_TYPE_EEPROM_64k],  \* "AA2"
       [gameCode |-> <<65, 51, 65, 0>>, saveType |-> SAVE_TYPE_EEPROM_64k],  \* "A3A"
       [gameCode |-> <<65, 90, 76, 0>>, saveType |-> SAVE_TYPE_EEPROM_64k] >> \* "AZL"

\* lines 217..224: the first table entry the region stripped code equals
RECURSIVE OverrideFrom(_, _)
OverrideFrom(gameCode, i) ==
    IF i > Len(overrideLut) THEN NO_OVERRIDE
    ELSE IF <<gameCode[1], gameCode[2] % 256>> = CodeWord(overrideLut[i].gameCode)
    THEN overrideLut[i].saveType
    ELSE OverrideFrom(gameCode, i + 1)

\* lines 197..227; 70 is 'F'
checkSaveOverride(gameCode) ==
    IF gameCode[1] % 256 = 70 THEN SAVE_TYPE_EEPROM_8k
    ELSE OverrideFrom(gameCode, 1)

\* lines 253..287
saveTypeLut ==
    << [str |-> <<69, 69, 80, 82, 79, 77, 95, 86, 49, 49, 49>>, saveType |-> SAVE_TYPE_EEPROM_8k],  \* "EEPROM_V111"
       [str |-> <<69, 69, 80, 82, 79, 77, 95, 86, 49, 50, 48>>, saveType |-> SAVE_TYPE_EEPROM_8k],  \* "EEPROM_V120"
       [str |-> <<69, 69, 80, 82, 79, 77, 95, 86, 49, 50, 49>>, saveType |-> SAVE_TYPE_EEPROM_64k],  \* "EEPROM_V121"
       [str |-> <<69, 69, 80, 82, 79, 77, 95, 86, 49, 50, 50>>, saveType |-> SAVE_TYPE_EEPROM_8k],  \* "EEPROM_V122"
       [str |-> <<69, 69, 80, 82, 79, 77, 95, 86, 49, 50, 52>>, saveType |-> SAVE_TYPE_EEPROM_64k],  \* "EEPROM_V124"
       [str |-> <<69, 69, 80, 82, 79, 77, 95, 86, 49, 50, 53>>, saveType |-> SAVE_TYPE_EEPROM_8k],  \* "EEPROM_V125"
       [str |-> <<69, 69, 80, 82, 79, 77, 95, 86, 49, 50, 54>>, saveType |-> SAVE_TYPE_EEPROM_8k],  \* "EEPROM_V126"
       [str |-> <<70, 76, 65, 83, 72, 95, 86, 49, 50, 48>>, saveType |-> SAVE_TYPE_FLASH_512k_PSC_RTC],  \* "FLASH_V120"
       [str |-> <<70, 76, 65, 83, 72, 95, 86, 49, 50, 49>>, saveType |-> SAVE_TYPE_FLASH_512k_PSC_RTC],  \* "FLASH_V121"
       [str |-> <<70, 76, 65, 83, 72, 95, 86, 49, 50, 51>>, saveType |-> SAVE_TYPE_FLASH_512k_PSC_RTC],  \* "FLASH_V123"
       [str |-> <<70, 76, 65, 83, 72, 95, 86, 49, 50, 52>>, saveType |-> SAVE_TYPE_FLASH_512k_PSC_RTC],  \* "FLASH_V124"
       [str |-> <<70, 76, 65, 83, 72, 95, 86, 49, 50, 53>>, saveType |-> SAVE_TYPE_FLASH_512k_PSC_RTC],  \* "FLASH_V125"
       [str |-> <<70, 76, 65, 83, 72, 95, 86, 49, 50, 54>>, saveType |-> SAVE_TYPE_FLASH_512k_PSC_RTC],  \* "FLASH_V126"
       [str |-> <<70, 76, 65, 83, 72, 53, 49, 50, 95, 86, 49, 51, 48>>, saveType |-> SAVE_TYPE_FLASH_512k_PSC_RTC],  \* "FLASH512_V130"
       [str |-> <<70, 76, 65, 83, 72, 53, 49, 50, 95, 86, 49, 51, 49>>, saveType |-> SAVE_TYPE_FLASH_512k_PSC_RTC],  \* "FLASH512_V131"
       [str |-> <<70, 76, 65, 83, 72, 53, 49, 50, 95, 86, 49, 51, 51>>, saveType |-> SAVE_TYPE_FLASH_512k_PSC_RTC],  \* "FLASH512_V133"
       [str |-> <<70, 76, 65, 83, 72, 49, 77, 95, 86, 49, 48, 50>>, saveType |-> SAVE_TYPE_FLASH_1m_MRX_RTC],  \* "FLASH1M_V102"
       [str |-> <<70, 76, 65, 83, 72, 49, 77, 95, 86, 49, 48, 51>>, saveType |-> SAVE_TYPE_FLASH_1m_MRX_RTC],  \* "FLASH1M_V103"
       [str |-> <<83, 82, 65, 77, 95, 70, 95, 86, 49, 48, 48>>, saveType |-> SAVE_TYPE_SRAM_256k],  \* "SRAM_F_V100"
       [str |-> <<83, 82, 65, 77, 95, 70, 95, 86, 49, 48, 50>>, saveType |-> SAVE_TYPE_SRAM_256k],  \* "SRAM_F_V102"
       [str |-> <<83, 82, 65, 77, 95, 70, 95, 86, 49, 48, 51>>, saveType |-> SAVE_TYPE_SRAM_256k],  \* "SRAM_F_V103"
       [str |-> <<83, 82, 65, 77, 95, 86, 49, 49, 48>>, saveType |-> SAVE_TYPE_SRAM_256k],  \* "SRAM_V110"
       [str |-> <<83, 82, 65, 77, 95, 86, 49, 49, 49>>, saveType |-> SAVE_TYPE_SRAM_256k],  \* "SRAM_V111"
       [str |-> <<83, 82, 65, 77, 95, 86, 49, 49, 50>>, saveType |-> SAVE_TYPE_SRAM_256k],  \* "SRAM_V112"
       [str |-> <<83, 82, 65, 77, 95, 86, 49, 49, 51>>, saveType |-> SAVE_TYPE_SRAM_256k] >>  \* "SRAM_V113"

\* line 247: 0x52504545 "EEPR", 0x53414C46 "FLAS", 0x4D415253 "SRAM"
IsMarker(tmp) ==
    \/ tmp = CodeWord(<<69, 69, 80, 82>>)
    \/ tmp = CodeWord(<<70, 76, 65, 83>>)
    \/ tmp = CodeWord(<<83, 82, 65, 77>>)

\* line 294: memcmp(romPtr, str, strlen(str)) == 0 at window offset off
StrAt(m, after, off, str) ==
    \A j \in 1 .. Len(str) : RomByte(m, after, off + j - 1) = str[j]

\* lines 296..301: the save type an entry of type tmpSaveType yields
Promote(tmpSaveType, romSz) ==
    IF (tmpSaveType = SAVE_TYPE_EEPROM_8k \/ tmpSaveType = SAVE_TYPE_EEPROM_64k)
       /\ romSz > EEPROM_2_LIMIT
    THEN tmpSaveType + 1
    ELSE tmpSaveType

\* lines 289..305: the table entries from i on, tried in order at offset off;
\* -1 when none matches
RECURSIVE LutFrom(_, _, _, _, _)
LutFrom(m, after, off, romSz, i) ==
    IF i > Len(saveTypeLut) THEN -1
    ELSE IF StrAt(m, after, off, saveTypeLut[i].str)
    THEN Promote(saveTypeLut[i].saveType, romSz)
    ELSE LutFrom(m, after, off, romSz, i + 1)

\* the scan given up at the first marker, whether an entry matches or not
ScanAt_Stop(m, after, off, romSz) ==
    IF IsMarker(RomWord(m, off))
    THEN (IF LutFrom(m, after, off, romSz, 1) = -1 THEN SAVE_TYPE_NONE
          ELSE LutFrom(m, after, off, romSz, 1))
    ELSE -1

\* lines 244..306: one iteration of the scan, at offset off
ScanAt(m, after, off, romSz) ==
    IF IsMarker(RomWord(m, off)) THEN LutFrom(m, after, off, romSz, 1) ELSE -1

\* lines 242..307: the iterations at the word offsets lo, lo + 4, .. below
\* hi, in ascending order, ending at the first that finds a save type; -1
\* when none does.  The range is walked in two halves, the lower one first,
\* to keep the evaluation shallow.
RECURSIVE ScanRange(_, _, _, _, _)
ScanRange(m, after, lo, hi, romSz) ==
    IF lo >= hi THEN -1
    ELSE IF hi - lo <= 4 THEN ScanAt(m, after, lo, romSz)
    ELSE LET mid   == lo + 4 * (((hi - lo + 3) \div 4) \div 2)
             lower == ScanRange(m, after, lo, mid, romSz)
         IN  IF lower # -1 THEN lower
             ELSE ScanRange(m, after, mid, hi, romSz)

\* the override table never consulted
DetectOverride_Skip(gameCode) == NO_OVERRIDE

\* lines 229..312
DetectOverride(gameCode) == checkSaveOverride(gameCode)

tryDetectSaveType(m, after, romSz) ==
    IF DetectOverride(RomWord(m, GAME_CODE_OFFSET)) # NO_OVERRIDE
    THEN DetectOverride(RomWord(m, GAME_CODE_OFFSET))
    ELSE LET found == ScanRange(m, after, HEADER_SIZE, romSz, romSz)
         IN  IF found = -1 THEN SAVE_TYPE_NONE ELSE found

----------------------------------------------------------------------------
(* oafInitAndRun *)

NoCounts ==
    [signals |-> 0, cycles |-> 0, done |-> 0, initLists |-> 0, steadyLists |-> 0,
     transfers |-> 0, swaps |-> 0, dumps |-> 0]

\* what the collaborators of one session do: malloc (line 646), handleFsStuff
\* (line 651: its result, or "nopath" for RES_OK with an empty path), fOpen
\* and fRead inside loadGbaRom, LGY_prepareGbaMode (line 667)
SessionInputs ==
    LET ok == [alloc |-> TRUE, fs |-> "RES_OK", openOk |-> TRUE, fault |-> -1,
               prep |-> "RES_OK"]
    IN  {ok, [ok EXCEPT !.alloc = FALSE], [ok EXCEPT !.fs = "RES_FR_DISK_ERR"],
         [ok EXCEPT !.fs = "nopath"], [ok EXCEPT !.openOk = FALSE],
         [ok EXCEPT !.fault = 0], [ok EXCEPT !.fault = 1],
         [ok EXCEPT !.prep = "RES_FR_DISK_ERR"]}

\* lines 675..681: the event is created and handed to LGYFB, the task is
\* created and can run from now on, g_frameReadyEvent is set; the capture
\* hardware starts with LGY_switchMode (comment at line 680)
StartGba ==
    /\ evState' = "live"
    /\ signaled' = FALSE
    /\ gfxPc' = "wait"
    /\ gFrameReadyEvent' = TRUE
    /\ UNCHANGED hwOn

NoGba == UNCHANGED <<evState, signaled, hwOn, gfxPc, gFrameReadyEvent>>

\* lines 643..681 and, on the paths that start no task, 685..691, with
\* in \in SessionInputs
OafInitAndRunWith(in) ==
    IF ~in.alloc
    THEN /\ res' = "RES_OUT_OF_MEM"
         /\ UNCHANGED <<romWindow, romSize, loadRes, saveType, busStores>>
         /\ NoGba
    ELSE IF in.fs # "RES_OK"
    THEN /\ res' = (IF in.fs = "nopath" THEN "RES_OK" ELSE in.fs)
         /\ UNCHANGED <<romWindow, romSize, loadRes, saveType, busStores>>
         /\ NoGba
    ELSE LET ld == loadGbaRom(romWindow, romLoc, romFile, in.openOk, in.fault)
         IN  /\ romWindow' = ld.romWindow
             /\ romSize' = (IF ld.set THEN ld.romSize ELSE romSize)
             /\ loadRes' = ld.res
             /\ busStores' = ld.stores
             /\ IF ld.res # "RES_OK"
                THEN /\ res' = ld.res
                     /\ UNCHANGED saveType
                     /\ NoGba
                ELSE /\ saveType' = tryDetectSaveType(ld.romWindow, afterRom, ld.romSize)
                     /\ res' = in.prep
                     /\ IF in.prep = "RES_OK" THEN StartGba ELSE NoGba

\* oafInitAndRun up to its return or, when the task was created, up to
\* GFX_waitForVBlank0 (line 682), where the main task is suspended and the
\* handler can run
OafInitAndRun ==
    /\ mainPc = "boot"
    /\ \E in \in SessionInputs : OafInitAndRunWith(in)
    /\ mainPc' = (IF gFrameReadyEvent' THEN "vblank"
                  ELSE IF res' = "RES_OK" THEN "run" ELSE "finished")
    /\ UNCHANGED <<romLoc, romFile, afterRom, oneShot, inited, gfxLog, cnt>>
    /\ UNCHANGED dbVars

\* lines 682..691: GFX_waitForVBlank0 returns, LGY_switchMode starts the GBA
\* and with it the capture hardware, oafInitAndRun returns RES_OK
OafSwitchMode ==
    /\ mainPc = "vblank"
    /\ hwOn' = TRUE
    /\ mainPc' = "run"
    /\ UNCHANGED <<evState, oneShot, signaled, gfxPc, inited, gfxLog, cnt, gFrameReadyEvent>>
    /\ UNCHANGED <<romVars, dbVars>>

----------------------------------------------------------------------------
(* The inputs of the ROM specification. *)

AfterZero == [j \in 1 .. 16 |-> 0]

\* "124" and zeros
After124 == [j \in 1 .. 16 |-> IF j = 1 THEN 49 ELSE IF j = 2 THEN 50 ELSE IF j = 3 THEN 52 ELSE 0]

CodeAXVE == <<65, 88, 86, 69>>

GameCodes ==
    {CodeAXVE, <<70, 66, 77, 69>>, <<65, 65, 50, 69>>, <<65, 51, 65, 74>>,
     <<65, 90, 76, 80>>, <<71, 77, 66, 67>>, <<0, 0, 0, 0>>, <<66, 70, 65, 69>>}

FileSizes ==
    {1, 2, 3, 5, ROM_CHUNK \div 2, 3 * ROM_CHUNK, 5 * ROM_CHUNK + 3, 24 * ROM_CHUNK,
     33 * ROM_CHUNK}
    \cup {k * ROM_CHUNK + d : k \in {1, 2, 4, 8, 16, 32}, d \in {-1, 0, 1}}

\* files that differ in size
SizeFiles ==
    {[size |-> sz, fill |-> fl, code |-> CodeAXVE, strs |-> <<>>] :
        sz \in FileSizes, fl \in {"ramp", "ff"}}

StrAtOff(o, t) == [off |-> o, txt |-> t]

\* "EEPROM_V999", a marker no table string follows
JunkEeprom == <<69, 69, 80, 82, 79, 77, 95, 86, 57, 57, 57>>

OneStringLayouts ==
    {<<StrAtOff(HEADER_SIZE, saveTypeLut[i].str)>> : i \in DOMAIN saveTypeLut}

OtherLayouts ==
    {<<>>,
     <<StrAtOff(HEADER_SIZE + 1, saveTypeLut[5].str)>>,
     <<StrAtOff(HEADER_SIZE - 4, saveTypeLut[25].str)>>,
     <<StrAtOff(HEADER_SIZE, JunkEeprom), StrAtOff(HEADER_SIZE + 12, saveTypeLut[17].str)>>,
     <<StrAtOff(HEADER_SIZE + 4, saveTypeLut[25].str),
       StrAtOff(HEADER_SIZE + 16, saveTypeLut[1].str)>>}

FewLayouts ==
    {<<>>,
     <<StrAtOff(HEADER_SIZE, saveTypeLut[5].str)>>,
     <<StrAtOff(HEADER_SIZE, saveTypeLut[17].str)>>,
     <<StrAtOff(HEADER_SIZE, JunkEeprom), StrAtOff(HEADER_SIZE + 12, saveTypeLut[1].str)>>}

SaveSizes ==
    {ROM_CHUNK, ROM_CHUNK + 64, 16 * ROM_CHUNK, 16 * ROM_CHUNK + 4, MAX_ROM_SIZE}

\* files that differ in game code and SDK strings
SaveFiles ==
    {[size |-> sz, fill |-> "ramp", code |-> CodeAXVE, strs |-> ly] :
        sz \in SaveSizes, ly \in OtherLayouts}
    \cup {[size |-> sz, fill |-> "ramp", code |-> CodeAXVE, strs |-> ly] :
        sz \in {ROM_CHUNK + 64, MAX_ROM_SIZE}, ly \in OneStringLayouts}
    \cup {[size |-> sz, fill |-> "ramp", code |-> c, strs |-> ly] :
        sz \in {ROM_CHUNK + 64, MAX_ROM_SIZE}, c \in GameCodes, ly \in FewLayouts}

\* files whose last words hold the start of an SDK string
EdgeFiles ==
    {[size |-> sz, fill |-> "ramp", code |-> CodeAXVE,
      strs |-> <<StrAtOff(sz - 8, saveTypeLut[5].str)>>] :
        sz \in {2 * ROM_CHUNK, MAX_ROM_SIZE}}

GfxIdle ==
    /\ evState = "none"
    /\ signaled = FALSE
    /\ hwOn = FALSE
    /\ gfxPc = "none"
    /\ inited = FALSE
    /\ gfxLog = <<>>
    /\ cnt = NoCounts
    /\ mainPc = "boot"
    /\ gFrameReadyEvent = FALSE

DbIdle ==
    /\ db = <<>>
    /\ dbHash = <<0, 0, 0, 0, 0, 0, 0, 0>>
    /\ dbRes = "none"
    /\ entryPos = -1
    /\ dbEntry = <<0, 0, 0, 0, 0, 0, 0, 0>>
    /\ dbProbes = <<>>

RomIdle ==
    /\ romWindow = [a \in Window |-> 170]
    /\ romSize = -1
    /\ loadRes = "none"
    /\ res = "none"
    /\ saveType = -1
    /\ busStores = -1

PlainSession ==
    /\ RomIdle
    /\ oneShot = FALSE
    /\ GfxIdle
    /\ DbIdle

InitLoad ==
    /\ romLoc \in ROM_LOCS
    /\ romFile \in SizeFiles
    /\ afterRom = AfterZero
    /\ PlainSession

InitSave ==
    /\ romLoc = 536870912
    /\ \/ romFile \in SaveFiles /\ afterRom = AfterZero
       \/ romFile \in EdgeFiles /\ afterRom \in {AfterZero, After124}
    /\ PlainSession

NextRom == OafInitAndRun \/ OafSwitchMode

\* the loader, over files of many sizes
SpecLoad == InitLoad /\ [][NextRom]_vars

\* save type detection, over files of many contents
SpecSave == InitSave /\ [][NextRom]_vars

----------------------------------------------------------------------------
(* The kernel's event, as gbaGfxHandler, oafUpdate and oafFinish use it.   *)

\* waitForEvent on a live event finds the flag set or blocks
LiveWaitOutcomes(flag) == {IF flag THEN "ok" ELSE "block"}

\* lines 467, 471, 705: the handler keeps the pointer it was given, and a wait
\* that starts after deleteEvent(g_frameReadyEvent) goes through it to an
\* object that no longer exists.  What the wait finds there is whatever the
\* freed memory holds: it fails, returns KRES_OK, or blocks.
DanglingWaitOutcomes == {"fail", "ok", "block"}

WaitOutcomes(ev, flag) ==
    IF ev = "live" THEN LiveWaitOutcomes(flag) ELSE DanglingWaitOutcomes

\* the flag after a wait that returned KRES_OK
FlagAfterWait(flag) == IF oneShot THEN FALSE ELSE flag

\* the tasks blocked on the event
Waiters ==
    (IF gfxPc = "blocked" /\ evState = "live" THEN {"gfx"} ELSE {})
    \cup (IF mainPc = "update" THEN {"main"} ELSE {})

Count(field) == [cnt EXCEPT ![field] = @ + 1]

\* gbaGfxHandler's wait returned KRES_OK: a cycle starts
CycleStarts(c) == [c EXCEPT !.cycles = @ + 1]

\* signalEvent wakes the tasks in woken
Wake(woken) ==
    /\ gfxPc' = (IF "gfx" \in woken THEN "clear" ELSE gfxPc)
    /\ gfxLog' = (IF "gfx" \in woken THEN <<"wait">> ELSE gfxLog)
    /\ cnt' = (IF "gfx" \in woken THEN CycleStarts(Count("signals")) ELSE Count("signals"))
    /\ mainPc' = (IF "main" \in woken THEN "run" ELSE mainPc)

\* the capture hardware completes a frame: LGYFB signals the event.  A set
\* event stays set; a one shot event with waiters wakes one of them and
\* stays clear; otherwise the flag is set and every waiter is woken.
HwSignal ==
    /\ hwOn /\ evState = "live"
    /\ cnt.signals < MaxSignals
    /\ IF signaled
       THEN /\ Wake({})
            /\ UNCHANGED signaled
       ELSE IF oneShot /\ Waiters # {}
       THEN /\ \E w \in Waiters : Wake({w})
            /\ UNCHANGED signaled
       ELSE /\ signaled' = TRUE
            /\ Wake(Waiters)
    /\ UNCHANGED <<evState, oneShot, hwOn, inited, gFrameReadyEvent>>
    /\ UNCHANGED <<romVars, dbVars>>

----------------------------------------------------------------------------
(* gbaGfxHandler, one action per call it makes *)

GfxKeeps == UNCHANGED <<evState, oneShot, hwOn, mainPc, gFrameReadyEvent, romVars, dbVars>>

\* line 471: if(waitForEvent(event) != KRES_OK) break
AfterFailedWait == "fail"

\* line 471: waitForEvent(event)
GfxWait ==
    /\ gfxPc = "wait"
    /\ \E o \in WaitOutcomes(evState, signaled) :
          \/ /\ o = "ok"
             /\ evState = "live" \/ cnt.cycles < MaxSignals + MaxStaleCycles
             /\ signaled' = FlagAfterWait(signaled)
             /\ gfxPc' = "clear"
             /\ gfxLog' = <<"wait">>
             /\ cnt' = CycleStarts(cnt)
          \/ /\ o = "block"
             /\ gfxPc' = "blocked"
             /\ UNCHANGED <<signaled, gfxLog, cnt>>
          \/ /\ o = "fail"
             /\ gfxPc' = AfterFailedWait
             /\ UNCHANGED <<signaled, gfxLog, cnt>>
    /\ UNCHANGED inited
    /\ GfxKeeps

\* line 472: clearEvent(event)
FlagAfterClear(flag) == FALSE

GfxClear ==
    /\ gfxPc = "clear"
    /\ signaled' = FlagAfterClear(signaled)
    /\ gfxPc' = "list"
    /\ gfxLog' = Append(gfxLog, "clear")
    /\ UNCHANGED <<inited, cnt>>
    /\ GfxKeeps

\* the initial list submitted on every pass
UseInitList_Always(done) == TRUE

\* lines 480..491: which list is submitted
UseInitList(done) == done = FALSE

\* lines 477..492: GX_processCommandList(listSize, list)
GfxProcessCommandList ==
    /\ gfxPc = "list"
    /\ inited' = TRUE
    /\ cnt' = (IF UseInitList(inited) THEN Count("initLists") ELSE Count("steadyLists"))
    /\ gfxPc' = "p3d"
    /\ gfxLog' = Append(gfxLog, "list")
    /\ UNCHANGED signaled
    /\ GfxKeeps

\* line 493: GFX_waitForP3D() returns
GfxWaitForP3D ==
    /\ gfxPc = "p3d"
    /\ gfxPc' = "transfer"
    /\ gfxLog' = Append(gfxLog, "p3d")
    /\ UNCHANGED <<signaled, inited, cnt>>
    /\ GfxKeeps

\* lines 494..495: GX_displayTransfer into the top framebuffer
GfxDisplayTransfer ==
    /\ gfxPc = "transfer"
    /\ gfxPc' = "ppf"
    /\ gfxLog' = Append(gfxLog, "transfer")
    /\ cnt' = Count("transfers")
    /\ UNCHANGED <<signaled, inited>>
    /\ GfxKeeps

\* line 496: GFX_waitForPPF() returns
GfxWaitForPPF ==
    /\ gfxPc = "ppf"
    /\ gfxPc' = "swap"
    /\ gfxLog' = Append(gfxLog, "ppf")
    /\ UNCHANGED <<signaled, inited, cnt>>
    /\ GfxKeeps

\* line 497: GFX_swapFramebufs()
GfxSwapFramebufs ==
    /\ gfxPc = "swap"
    /\ gfxPc' = "keys"
    /\ gfxLog' = Append(gfxLog, "swap")
    /\ cnt' = Count("swaps")
    /\ UNCHANGED <<signaled, inited>>
    /\ GfxKeeps

\* line 499: hidKeysDown() & KEY_Y.  With KEY_Y down dumpFrameTex() starts
\* and issues a display transfer of its own (line 457); otherwise the cycle
\* is complete
GfxKeys ==
    /\ gfxPc = "keys"
    /\ \E keyY \in BOOLEAN :
          IF keyY
          THEN /\ cnt' = Count("transfers")
               /\ gfxLog' = Append(gfxLog, "dump")
               /\ gfxPc' = "dumpPpf"
          ELSE /\ cnt' = Count("done")
               /\ gfxPc' = "wait"
               /\ UNCHANGED gfxLog
    /\ UNCHANGED <<signaled, inited>>
    /\ GfxKeeps

\* line 458: dumpFrameTex's GFX_waitForPPF() returns
GfxDumpWaitForPPF ==
    /\ gfxPc = "dumpPpf"
    /\ gfxPc' = "dumpWrite"
    /\ UNCHANGED <<signaled, inited, gfxLog, cnt>>
    /\ GfxKeeps

\* lines 460..462: the header is copied and fsQuickWrite returns (its result
\* is dropped at line 499); the dump and the cycle are complete
GfxDumpWrite ==
    /\ gfxPc = "dumpWrite"
    /\ cnt' = [cnt EXCEPT !.dumps = @ + 1, !.done = @ + 1]
    /\ gfxPc' = "wait"
    /\ UNCHANGED <<signaled, inited, gfxLog>>
    /\ GfxKeeps

\* lines 471, 502: the wait failed: break, taskExit()
GfxExit ==
    /\ gfxPc = "fail"
    /\ gfxPc' = "exited"
    /\ UNCHANGED <<signaled, inited, gfxLog, cnt>>
    /\ GfxKeeps

GfxStep ==
    \/ GfxWait
    \/ GfxClear
    \/ GfxProcessCommandList
    \/ GfxWaitForP3D
    \/ GfxDisplayTransfer
    \/ GfxWaitForPPF
    \/ GfxSwapFramebufs
    \/ GfxKeys
    \/ GfxDumpWaitForPPF
    \/ GfxDumpWrite
    \/ GfxExit

----------------------------------------------------------------------------
(* oafUpdate and oafFinish, called by the main task after oafInitAndRun *)

\* waitForEvent(NULL): the kernel decides; the call returns (oafUpdate drops
\* the result), never returns, or faults
NullWaitOutcomes == {"run", "nullwait", "fault"}

\* lines 694..698.  g_frameReadyEvent is not tested: after a session that
\* returned RES_OK without a ROM path (line 651) the wait is on NULL
OafUpdate ==
    /\ mainPc = "run"
    /\ IF ~gFrameReadyEvent
       THEN /\ mainPc' \in NullWaitOutcomes
            /\ UNCHANGED signaled
       ELSE IF signaled
       THEN /\ signaled' = FlagAfterWait(signaled)
            /\ UNCHANGED mainPc
       ELSE /\ mainPc' = "update"
            /\ UNCHANGED signaled
    /\ UNCHANGED <<evState, oneShot, hwOn, gfxPc, inited, gfxLog, cnt, gFrameReadyEvent>>
    /\ UNCHANGED <<romVars, dbVars>>

\* lines 700..709: deleteEvent releases a blocked handler with a failure
OafFinish ==
    /\ mainPc = "run"
    /\ hwOn' = FALSE
    /\ IF gFrameReadyEvent
       THEN /\ evState' = "deleted"
            /\ gfxPc' = (IF gfxPc = "blocked" THEN "fail" ELSE gfxPc)
            /\ gFrameReadyEvent' = FALSE
       ELSE UNCHANGED <<evState, gfxPc, gFrameReadyEvent>>
    /\ mainPc' = "finished"
    /\ UNCHANGED <<oneShot, signaled, inited, gfxLog, cnt>>
    /\ UNCHANGED <<romVars, dbVars>>

InitGfx ==
    /\ romLoc = 536870912
    /\ romFile = [size |-> ROM_CHUNK, fill |-> "ramp", code |-> CodeAXVE, strs |-> <<>>]
    /\ afterRom = AfterZero
    /\ RomIdle
    /\ oneShot \in BOOLEAN
    /\ GfxIdle
    /\ DbIdle

NextGfx ==
    \/ OafInitAndRun
    \/ OafSwitchMode
    \/ HwSignal
    \/ GfxStep
    \/ OafUpdate
    \/ OafFinish

\* a session: the main task, the handler task and the capture hardware
SpecGfx == InitGfx /\ [][NextGfx]_vars

\* the same, with the handler task scheduled whenever it can run
SpecGfxFair == SpecGfx /\ WF_vars(GfxStep)

----------------------------------------------------------------------------
(* searchGameDb *)

\* line 174: *(u64*)db->sha1, the 8 bytes loaded as the little endian CPU
\* loads a u64: the first byte is the least significant
Load64(b) ==
    <<b[1] + 256 * b[2], b[3] + 256 * b[4], b[5] + 256 * b[6], b[7] + 256 * b[8]>>

\* a > b for two u64, compared from halfword k down
RECURSIVE Gt64From(_, _, _)
Gt64From(a, b, k) ==
    IF k = 0 THEN FALSE
    ELSE IF a[k] # b[k] THEN a[k] > b[k]
    ELSE Gt64From(a, b, k - 1)

\* line 187: tmp > x
GoesLower(tmp, x) == Gt64From(tmp, x, 4)

\* C's division of an s32 by two, which rounds towards zero
CDiv2(n) == IF n >= 0 THEN n \div 2 ELSE -((-n) \div 2)

\* line 169
Mid(l, r) == l + CDiv2(r - l)

\* lines 172..174: what the buffer holds after the seek and the read of record
\* mid (from 0); a read past the end of the file transfers nothing
ReadRecord(d, mid, buf) == IF mid >= 0 /\ mid < Len(d) THEN d[mid + 1] ELSE buf

\* lines 167..189: the loop from bounds l, r with buffer buf, after the
\* reads in probes; fault is the read that fails (counted from 0), -1 for none
RECURSIVE SearchLoop(_, _, _, _, _, _, _)
SearchLoop(d, x, l, r, buf, probes, fault) ==
    LET mid == Mid(l, r)
        rec == ReadRecord(d, mid, buf)
        tmp == Load64(rec)
    IN  IF Len(probes) = fault
        THEN [res |-> "RES_FR_DISK_ERR", pos |-> -1, buf |-> buf, probes |-> probes]
        ELSE IF tmp = x
        THEN [res |-> "RES_OK", pos |-> mid, buf |-> rec, probes |-> Append(probes, mid)]
        ELSE IF r <= l \/ r < 0
        THEN [res |-> "RES_NOT_FOUND", pos |-> -1, buf |-> rec,
              probes |-> Append(probes, mid)]
        ELSE IF GoesLower(tmp, x)
        THEN SearchLoop(d, x, l, mid - 1, rec, Append(probes, mid), fault)
        ELSE SearchLoop(d, x, mid + 1, r, rec, Append(probes, mid), fault)

\* lines 157..195; pos -1: *entryPos is not written
searchGameDb(d, x, buf, openOk, fault) ==
    IF ~openOk
    THEN [res |-> "RES_FR_NO_FILE", pos |-> -1, buf |-> buf, probes |-> <<>>]
    ELSE SearchLoop(d, x, 0, Len(d) - 1, buf, <<>>, fault)

\* line 328: searchGameDb(*sha1, &dbEntry, &dbPos)
SearchGameDb ==
    /\ dbRes = "none"
    /\ \E openOk \in BOOLEAN, fault \in {-1, 0, 1} :
          /\ openOk \/ fault = -1
          /\ LET out == searchGameDb(db, Load64(dbHash), dbEntry, openOk, fault)
             IN  /\ dbRes' = out.res
                 /\ entryPos' = (IF out.pos = -1 THEN entryPos ELSE out.pos)
                 /\ dbEntry' = out.buf
                 /\ dbProbes' = out.probes
    /\ UNCHANGED <<db, dbHash>>
    /\ UNCHANGED <<romVars, gfxVars>>

\* hash prefixes: the first and the last byte vary
HashKeys == {<<a, 0, 0, 0, 0, 0, 0, b>> : a \in 0 .. 2, b \in 0 .. 2}

\* a < b for two prefixes read as big endian numbers: the first byte that
\* differs decides
BigEndianLess(a, b) ==
    \E i \in 1 .. 8 : a[i] < b[i] /\ \A j \in 1 .. (i - 1) : a[j] = b[j]

\* a < b for two prefixes read as the CPU loads them: the last byte that
\* differs decides
NativeLess(a, b) ==
    \E i \in 1 .. 8 : a[i] < b[i] /\ \A j \in (i + 1) .. 8 : a[j] = b[j]

SortedBigEndian(d) == \A i \in 1 .. (Len(d) - 1) : BigEndianLess(d[i], d[i + 1])

SortedNative(d) == \A i \in 1 .. (Len(d) - 1) : NativeLess(d[i], d[i + 1])

RECURSIVE SeqsUpTo(_)
SeqsUpTo(n) ==
    IF n = 0 THEN {<<>>}
    ELSE LET shorter == SeqsUpTo(n - 1)
         IN  shorter \cup {Append(q, k) : q \in {q \in shorter : Len(q) = n - 1},
                                           k \in HashKeys}

\* database files whose records ascend in one of the two orders
Databases ==
    {d \in SeqsUpTo(MaxRecords) : SortedBigEndian(d) \/ SortedNative(d)}

\* line 325: GameDbEntry dbEntry is not initialised; what the buffer holds
\* before the search is the key looked for or something that is no key
StaleBuffer == [j \in 1 .. 8 |-> 170]

InitDb ==
    /\ db \in Databases
    /\ dbHash \in HashKeys
    /\ dbRes = "none"
    /\ entryPos = -1
    /\ dbEntry \in {dbHash, StaleBuffer}
    /\ dbProbes = <<>>
    /\ romLoc = 536870912
    /\ romFile = [size |-> 1, fill |-> "zero", code |-> CodeAXVE, strs |-> <<>>]
    /\ afterRom = AfterZero
    /\ romWindow = <<>>          \* the window plays no part in the search
    /\ romSize = -1 /\ loadRes = "none" /\ res = "none" /\ saveType = -1 /\ busStores = -1
    /\ oneShot = FALSE
    /\ GfxIdle

NextDb == SearchGameDb

\* the database search, over database files and hashes
SpecDb == InitDb /\ [][NextDb]_vars

----------------------------------------------------------------------------
(* Claims about the loader. *)

IsPow2(n) == \E k \in 0 .. 31 : n = Pow2(k)

\* the halfword the window holds at offset a
HalfAt(a) == romWindow[a] + 256 * romWindow[a + 1]

\* C1: a load that loadGbaRom accepts, of a file of 1 .. 32 MiB, reports
\* max(nextPow2(fileSize), 1 MiB): the power of two that is at least the file
\* size and at least one chunk, and no larger than that needs.  After it the
\* window holds the file's bytes below fileSize and 0xFF from fileSize up to
\* the reported size.
C1_PaddedSizeAndFill ==
    (loadRes = "RES_OK" /\ romFile.size >= 1 /\ romFile.size <= MAX_ROM_SIZE) =>
        /\ IsPow2(romSize)
        /\ romSize >= romFile.size
        /\ romSize >= ROM_CHUNK
        /\ romSize = ROM_CHUNK \/ romSize \div 2 < romFile.size
        /\ \A a \in Window :
              /\ a < romFile.size => romWindow[a] = FileByte(romFile, a)
              /\ (a >= romFile.size /\ a < romSize) => romWindow[a] = 255

\* a file of 5 chunks and 3 bytes was loaded: 8 chunks are reported, the file's
\* last byte is followed by 0xFF up to there
C1_Witness ==
    /\ loadRes = "RES_OK"
    /\ romFile.size = 5 * ROM_CHUNK + 3
    /\ romFile.fill = "ramp"
    /\ romSize = 8 * ROM_CHUNK
    /\ romWindow[romFile.size - 1] # 255
    /\ romWindow[romFile.size] = 255
    /\ romWindow[romSize - 1] = 255

\* C2: for a file larger than the window loadGbaRom returns RES_ROM_TOO_BIG
\* (unless the file could not be opened at all), the window keeps the bytes
\* it had, the ROM size is not reported, and the session ends with that
\* error before save type detection and before the event and the task exist.
C2_TooBigLeavesWindow ==
    romFile.size > MAX_ROM_SIZE =>
        /\ loadRes \in {"none", "RES_FR_NO_FILE", "RES_ROM_TOO_BIG"}
        /\ romWindow = [a \in Window |-> 170]
        /\ romSize = -1
        /\ busStores = -1
        /\ saveType = -1
        /\ gfxPc = "none"
        /\ evState = "none"
        /\ loadRes = "RES_ROM_TOO_BIG" => (res = "RES_ROM_TOO_BIG" /\ mainPc = "finished")

\* a file of 33 chunks was refused
C2_Witness ==
    /\ romFile.size = 33 * ROM_CHUNK
    /\ loadRes = "RES_ROM_TOO_BIG"
    /\ res = "RES_ROM_TOO_BIG"

\* C9: when the padded size P is above one chunk and below the window size,
\* every word at address A = ROM_LOC + o, P <= o < window size, holds
\* (A/2 mod 2^16) in its low and ((A/2 + 1) mod 2^16) in its high halfword,
\* and the loop stored exactly those words; when P is the window size the
\* loop stores nothing.
C9_OpenBusWords ==
    /\ (romSize > ROM_CHUNK /\ romSize < MAX_ROM_SIZE) =>
          /\ busStores = (MAX_ROM_SIZE - romSize) \div 4
          /\ \A o \in Window :
                (o >= romSize /\ o % 4 = 0) =>
                    /\ HalfAt(o) = ((romLoc + o) \div 2) % 65536
                    /\ HalfAt(o + 2) = ((romLoc + o) \div 2 + 1) % 65536
    /\ romSize = MAX_ROM_SIZE => busStores = 0

\* the pattern was written across an address where the halfwords wrap:
\* 0xFFFE/0xFFFF is followed by 0x0000/0x0001
C9_Witness ==
    /\ romSize = 2 * ROM_CHUNK
    /\ \E o \in Window :
          /\ o >= romSize /\ o % 4 = 0 /\ o + 4 < MAX_ROM_SIZE
          /\ HalfAt(o) = 65534 /\ HalfAt(o + 2) = 65535
          /\ HalfAt(o + 4) = 0 /\ HalfAt(o + 6) = 1

----------------------------------------------------------------------------
(* Claims about save type detection. *)

\* the game code of the loaded file hits the override table
StartsWithF == romFile.code[1] = 70

Code3 == <<romFile.code[1], romFile.code[2], romFile.code[3]>>

OverrideHit ==
    StartsWithF \/ Code3 \in {<<0, 0, 0>>, <<71, 77, 66>>, <<65, 65, 50>>,
                              <<65, 51, 65>>, <<65, 90, 76>>}

\* C4: when the game code hits the override table the result is the
\* override's save type, whatever SDK strings the ROM holds: EEPROM 8k for a
\* code that starts with 'F', else SRAM for homebrew and "GMB" and EEPROM 64k
\* for "AA2", "A3A" and "AZL".
C4_OverrideWins ==
    (saveType # -1 /\ OverrideHit) =>
        saveType = (IF StartsWithF THEN SAVE_TYPE_EEPROM_8k
                    ELSE IF Code3 \in {<<0, 0, 0>>, <<71, 77, 66>>}
                    THEN SAVE_TYPE_SRAM_256k
                    ELSE SAVE_TYPE_EEPROM_64k)

\* "AA2E" with "FLASH1M_V102" right after the header: EEPROM 64k all the same
C4_Witness ==
    /\ romFile.code = <<65, 65, 50, 69>>
    /\ romFile.strs = <<StrAtOff(HEADER_SIZE, saveTypeLut[17].str)>>
    /\ StrAt(romWindow, afterRom, HEADER_SIZE, saveTypeLut[17].str)
    /\ romSize = 2 * ROM_CHUNK
    /\ saveType = SAVE_TYPE_EEPROM_64k

\* C5: for a ROM whose effective size is above 16 MiB tryDetectSaveType never
\* returns the base EEPROM 8k or EEPROM 64k type.
C5_LargeRomNeverBaseEeprom ==
    (saveType # -1 /\ romSize > EEPROM_2_LIMIT) =>
        saveType \notin {SAVE_TYPE_EEPROM_8k, SAVE_TYPE_EEPROM_64k}

\* the word offsets of the scan at which some table string matches
MatchOffsets ==
    {o \in Window :
        /\ o >= HEADER_SIZE /\ o < romSize /\ o % 4 = 0
        /\ romWindow[o] \in {69, 70, 83}
        /\ \E i \in DOMAIN saveTypeLut : StrAt(romWindow, afterRom, o, saveTypeLut[i].str)}

\* the first table entry, in table order, that matches at offset o
FirstEntryAt(o) ==
    CHOOSE i \in DOMAIN saveTypeLut :
        /\ StrAt(romWindow, afterRom, o, saveTypeLut[i].str)
        /\ \A j \in 1 .. (i - 1) : ~StrAt(romWindow, afterRom, o, saveTypeLut[j].str)

\* the save type of the first table entry that matches at the lowest matching
\* offset; SAVE_TYPE_NONE when no offset matches
FirstMatchType ==
    LET offs == MatchOffsets
    IN  IF offs = {} THEN SAVE_TYPE_NONE
        ELSE LET o == CHOOSE o \in offs : \A q \in offs : o <= q
             IN  saveTypeLut[FirstEntryAt(o)].saveType

\* C6 as stated: on an override miss the result is the save type of the first
\* table entry that matches at the lowest matching word offset of
\* [0xE4, romSize), and SAVE_TYPE_NONE when no offset matches.
C6_FirstMatchTableType ==
    (saveType # -1 /\ ~OverrideHit) => saveType = FirstMatchType

\* C6 amended: the same, with an EEPROM 8k or 64k entry yielding its "_2"
\* sibling (the type plus one) when the effective ROM size is above 16 MiB.
C6_FirstMatchPromoted ==
    (saveType # -1 /\ ~OverrideHit) =>
        LET t == FirstMatchType
        IN  saveType = (IF t \in {SAVE_TYPE_EEPROM_8k, SAVE_TYPE_EEPROM_64k}
                           /\ romSize > EEPROM_2_LIMIT
                        THEN t + 1 ELSE t)

\* a marker no table string follows at 0xE4 and "FLASH1M_V102" three words on,
\* in a ROM above 16 MiB: the scan went on and found FLASH 1M with RTC
C6_Witness ==
    /\ ~OverrideHit
    /\ romFile.strs = <<StrAtOff(HEADER_SIZE, JunkEeprom),
                        StrAtOff(HEADER_SIZE + 12, saveTypeLut[17].str)>>
    /\ IsMarker(RomWord(romWindow, HEADER_SIZE))
    /\ romSize = MAX_ROM_SIZE
    /\ saveType = SAVE_TYPE_FLASH_1m_MRX_RTC

----------------------------------------------------------------------------
(* Claims about the frame dispatch task. *)

IsPrefix(a, b) == Len(a) <= Len(b) /\ \A k \in 1 .. Len(a) : a[k] = b[k]

CycleOrder == <<"wait", "clear", "list", "p3d", "transfer", "ppf", "swap">>

\* no cycle is under way: the handler is before or in its wait, or has left
BetweenCycles == gfxPc \in {"none", "wait", "blocked", "fail", "exited"}

\* the lists submitted after N completed cycles: the initialization list
\* once, in the first cycle, and the steady list N - 1 times
ListCounts ==
    /\ cnt.initLists = (IF inited THEN 1 ELSE 0)
    /\ BetweenCycles =>
          /\ cnt.initLists + cnt.steadyLists = cnt.done
          /\ cnt.swaps = cnt.done
          /\ cnt.done = cnt.cycles

\* C7 as stated: what a cycle has done so far is always a prefix of: wait,
\* clear, list submission, list wait, display transfer, transfer wait, swap;
\* after N completed cycles the init list was submitted once (in the first),
\* the steady list N - 1 times, and there were N display transfers and N swaps.
C7_OneTransferPerCycle ==
    /\ IsPrefix(gfxLog, CycleOrder)
    /\ ListCounts
    /\ BetweenCycles => cnt.transfers = cnt.done

\* C7 amended: the same, except that a cycle in which KEY_Y is down ends
\* with the texture dump, a second display transfer that follows the swap.
C7_CycleOrderAndCounts ==
    /\ IsPrefix(gfxLog, CycleOrder \o <<"dump">>)
    /\ ListCounts
    /\ cnt.dumps <= cnt.done
    /\ BetweenCycles => cnt.transfers = cnt.done + cnt.dumps

\* two cycles are complete, one of them with a texture dump
C7_Witness ==
    /\ gfxPc = "wait"
    /\ gfxLog = CycleOrder \o <<"dump">>
    /\ cnt.done = 2
    /\ cnt.initLists = 1 /\ cnt.steadyLists = 1
    /\ cnt.transfers = 3 /\ cnt.swaps = 2

C8_ExitedStays ==
    [][gfxPc = "exited" =>
          /\ gfxPc' = "exited"
          /\ cnt'.initLists = cnt.initLists /\ cnt'.steadyLists = cnt.steadyLists
          /\ cnt'.transfers = cnt.transfers /\ cnt'.swaps = cnt.swaps
          /\ cnt'.dumps = cnt.dumps /\ cnt'.cycles = cnt.cycles]_vars

\* the handler exits only from a wait that failed, and a wait fails only
\* once the event is deleted
C8_ExitsByFailedWait ==
    [][/\ (gfxPc # "exited" /\ gfxPc' = "exited") => gfxPc = "fail"
       /\ (gfxPc # "fail" /\ gfxPc' = "fail") =>
             (gfxPc \in {"wait", "blocked"} /\ evState' = "deleted")]_vars

C10_NoFrameTwiceWhileLive == evState = "live" => cnt.cycles <= cnt.signals

\* every signal of the run was turned into a cycle while the main task was
\* blocked in oafUpdate on the same event
C10_Witness ==
    /\ cnt.signals = MaxSignals
    /\ cnt.cycles = MaxSignals
    /\ mainPc = "update"
    /\ evState = "live"

----------------------------------------------------------------------------
(* Claims about the game database. *)

\* the records whose key is the hash searched for
Holders == {i \in 1 .. Len(db) : db[i] = dbHash}

\* the search ran and no seek or read failed
Searched == dbRes \in {"RES_OK", "RES_NOT_FOUND"}

\* a key that is present was found, with its record and index; a key that is
\* absent gave RES_NOT_FOUND and left entryPos alone
SearchRight ==
    IF Holders # {}
    THEN /\ dbRes = "RES_OK"
         /\ entryPos + 1 \in Holders
         /\ dbEntry = dbHash
    ELSE /\ dbRes = "RES_NOT_FOUND"
         /\ entryPos = -1

\* C3 as stated: with N >= 1 records ascending by the hash prefix read as a
\* big endian number, the search finds every key that is present and reports
\* every other key as not found.
C3_SearchBigEndianSorted ==
    (Searched /\ Len(db) >= 1 /\ SortedBigEndian(db)) => SearchRight

\* C3 amended: the same for records ascending by the hash prefix as the CPU
\* loads it, the first byte being the least significant.
C3_SearchNativeSorted ==
    (Searched /\ Len(db) >= 1 /\ SortedNative(db)) => SearchRight

\* three records in native but not in big endian order; the last one was
\* found after the search moved up twice
C3_Witness ==
    /\ Len(db) = 3
    /\ SortedNative(db) /\ ~SortedBigEndian(db)
    /\ dbHash = db[3]
    /\ dbRes = "RES_OK"
    /\ entryPos = 2
    /\ dbProbes = <<1, 2>>

----------------------------------------------------------------------------
(* Claims about the record indices the search reads. *)

\* the indices of the records of a file of n records
RecordIndices(n) == 0 .. (n - 1)

\* C11 as stated: for every record count N >= 0, the empty file included,
\* every record index searchGameDb seeks to and reads lies in [0, N-1].
C11_ProbesInRange ==
    \A i \in 1 .. Len(dbProbes) : dbProbes[i] \in RecordIndices(Len(db))

\* C11 for files that hold a record: with N >= 1 every index read lies in
\* [0, N-1], also once the bounds have crossed.
C11_ProbesInRangeNonEmpty ==
    Len(db) >= 1 => \A i \in 1 .. Len(dbProbes) : dbProbes[i] \in RecordIndices(Len(db))

\* the bounds crossed (r = l - 1) in a file of four records and the record
\* read again was one of the file
C11_CrossedInRange ==
    /\ Len(db) = 4
    /\ dbRes = "RES_NOT_FOUND"
    /\ dbProbes = <<1, 2, 2>>

====
